---- MODULE Spec2Model ----
(***************************************************************************)
(* Model of dataset-gen/decompiler/typeinfo.py: the TypeLib catalog, the   *)
(* TypeInfo node classes, the normalizer TypeLib.add and TypeInfoCodec.    *)
(*                                                                         *)
(* Two specifications:                                                     *)
(*   Spec    - one call lib.add(root) on an empty TypeLib, step by step,   *)
(*             over every type graph of a bounded family;                  *)
(*   SpecLib - a caller using the TypeLib, the node constructors and the   *)
(*             codec directly.                                             *)
(*                                                                         *)
(* Type names are strings, rendered as the __str__ methods render them.    *)
(* The provider (ida_typeinf) is modelled as data: a native type is a tree *)
(* over void, primitives, named struct/union types, pointers and arrays,   *)
(* and the members of the named types are a table chosen in Init.  The     *)
(* provider's signature dstr() of a pointer or array is taken to be the    *)
(* same rendering the node classes use for their own names, and str() of a *)
(* tinfo_t object to be its dstr().                                        *)
(***************************************************************************)
EXTENDS Integers, Sequences, FiniteSets, TLC

VARIABLES
    udts,       \* provider: struct/union name -> [union, members]
    root,       \* provider: the type handed to lib.add
    lib,        \* TypeLib._data
    worklist,   \* the visited-set threaded through TypeLib.add
    stack,      \* call stack of TypeLib.add, innermost frame last
    status,     \* "running", "done" or "KeyError" (uncaught exception)
    visits,     \* signature -> number of times the shape dispatch ran
    calls,      \* number of invocations of TypeLib.add so far
    last        \* SpecLib: the last operation and its outcome

vars == <<udts, root, lib, worklist, stack, status, visits, calls, last>>

-----------------------------------------------------------------------------
(* Bounds of the model *)

MaxMembersA == 2     \* members of the named type "A"
MaxMembersB == 1     \* members of the named type "B"
ArrayLen == 2        \* element count of the arrays
MaxEntries == 4      \* SpecLib: the caller stops when the catalog holds this many
MaxLayout == 2       \* SpecLib: entries of a struct layout built by the caller
PaddingArg == 4      \* SpecLib: size of the Padding the caller builds

(* Program constants *)

PointerWidth == 8    \* Pointer.WIDTH
BitsPerByte == 8     \* the // 8 of the padding computation

\* Python's None where a name is expected (names are strings).
NoneName == "<None>"
\* Python's None where a Padding is expected.
NonePadding == [cls |-> "NoneType"]

-----------------------------------------------------------------------------
(* The provider: native types *)

VoidT == [k |-> "void"]
PrimT(name, size) == [k |-> "prim", name |-> name, size |-> size]
UdtT(name) == [k |-> "udt", name |-> name]
PtrT(t) == [k |-> "ptr", to |-> t]
ArrT(t, n) == [k |-> "arr", of |-> t, n |-> n]

IntT == PrimT("int", 4)

\* tinfo_t.dstr(): the textual signature of a native type.
RECURSIVE Dstr(_)
Dstr(t) ==
    CASE t.k = "void" -> "void"
      [] t.k = "prim" -> t.name
      [] t.k = "udt"  -> t.name
      [] t.k = "ptr"  -> Dstr(t.to) \o " *"
      [] t.k = "arr"  -> Dstr(t.of) \o "[" \o ToString(t.n) \o "]"

\* The native types the type graphs of the model are made of.
UdtNames == {"A", "B"}
MemberTypesA == {IntT, UdtT("B"), PtrT(UdtT("A")), PtrT(UdtT("B"))}
MemberTypesB == {ArrT(IntT, ArrayLen), PtrT(UdtT("A"))}
Roots == {VoidT, UdtT("A"), UdtT("B"), PtrT(VoidT), PtrT(UdtT("A")),
          ArrT(UdtT("B"), ArrayLen)}

\* t with the pointee or element types inside it.
RECURSIVE Parts(_)
Parts(t) ==
    {t} \cup (CASE t.k = "ptr" -> Parts(t.to)
                [] t.k = "arr" -> Parts(t.of)
                [] OTHER -> {})

NativeTypes == UNION {Parts(t) : t \in Roots \cup MemberTypesA \cup MemberTypesB}

\* A tinfo_t object held as a value by a node: a Python object that is not
\* a str, and what str() renders it as.
TinfoHandle(t) == [NOT_A_STRING |-> "ida_typeinf.tinfo_t", str |-> Dstr(t)]

\* Whether the Python value obj is a tinfo_t object and not a str.  (A
\* string and a record cannot be compared, so the test is made on their
\* printed forms.)
IsTinfo(obj) == ToString(obj) \in {ToString(TinfoHandle(t)) : t \in NativeTypes}

\* str(obj) of a str or a tinfo_t object, as the f-strings apply it.
Str(obj) == IF IsTinfo(obj) THEN obj.str ELSE obj

\* Pointer.__str__
PointerStr(target_type_name) == Str(target_type_name) \o " *"

\* Array.__str__
ArrayStr(base_type_name, nelements) ==
    base_type_name \o "[" \o ToString(nelements) \o "]"

IsVoid(t) == t.k = "void"
IsPtr(t) == t.k = "ptr"
IsArray(t) == t.k = "arr"
IsUdt(t) == t.k = "udt"
IsUnion(tbl, t) == IsUdt(t) /\ tbl[t.name].union
IsStruct(tbl, t) == IsUdt(t) /\ ~tbl[t.name].union
NMembers(tbl, t) == Len(tbl[t.name].members)

Max(S) == CHOOSE x \in S : \A y \in S : y <= x

\* tinfo_t.get_size() in bytes; member.size is this in bits.
RECURSIVE SizeOfT(_, _)
RECURSIVE EndOffset(_, _, _)
SizeOfT(tbl, t) ==
    CASE t.k = "void" -> 0
      [] t.k = "prim" -> t.size
      [] t.k = "ptr"  -> PointerWidth
      [] t.k = "arr"  -> t.n * SizeOfT(tbl, t.of)
      [] t.k = "udt"  ->
           LET ms == tbl[t.name].members IN
           IF tbl[t.name].union
           THEN IF ms = <<>> THEN 0
                ELSE Max({SizeOfT(tbl, ms[i].type) : i \in 1..Len(ms)})
           ELSE EndOffset(tbl, ms, Len(ms)) \div BitsPerByte

\* End, in bits, of the i-th member of the struct member list ms (0 for i = 0).
EndOffset(tbl, ms, i) ==
    IF i = 0 THEN 0
    ELSE EndOffset(tbl, ms, i - 1) + ms[i].gap
           + BitsPerByte * SizeOfT(tbl, ms[i].type)

\* udt_member_t.size (bits) of member n (0-based, as in the code) of t.
MemberSize(tbl, t, n) ==
    BitsPerByte * SizeOfT(tbl, tbl[t.name].members[n + 1].type)

\* udt_member_t.offset (bits) of member n (0-based) of t.
MemberOffset(tbl, t, n) ==
    IF tbl[t.name].union THEN 0
    ELSE EndOffset(tbl, tbl[t.name].members, n) + tbl[t.name].members[n + 1].gap

MemberType(tbl, t, n) == tbl[t.name].members[n + 1].type
MemberName(tbl, t, n) == tbl[t.name].members[n + 1].name

-----------------------------------------------------------------------------
(* TypeLib: the catalog *)

EmptyLib == [key \in {} |-> NonePadding]

\* TypeLib.__contains__
Contains(data, key) == key \in DOMAIN data

\* Mutant of GetItem: an absent key yields a default instead of raising.
GetItemDefault(data, key) ==
    IF Contains(data, key) THEN [raised |-> FALSE, item |-> data[key]]
    ELSE [raised |-> FALSE, item |-> [cls |-> "Void", size |-> 0]]

\* TypeLib.__getitem__: self._data[key], which raises KeyError when key is
\* absent.
GetItem(data, key) ==
    IF Contains(data, key) THEN [raised |-> FALSE, item |-> data[key]]
    ELSE [raised |-> TRUE, item |-> NonePadding]

\* Mutant of SetItem: the entry is written whether or not the key exists.
SetItemOverwrite(data, key, item) ==
    [k \in DOMAIN data \cup {key} |-> IF k = key THEN item ELSE data[k]]

\* TypeLib.__setitem__
SetItem(data, key, item) ==
    IF ~Contains(data, key) THEN data @@ (key :> item) ELSE data

-----------------------------------------------------------------------------
(* The node classes.  For each class: the node its constructor builds and  *)
(* the catalog the constructor leaves behind.                              *)

\* TypeInfo.__init__
TypeInfoNode(name, size) == [cls |-> "TypeInfo", name |-> name, size |-> size]
TypeInfoInit(data, name, size) ==
    IF name # NoneName THEN SetItem(data, name, TypeInfoNode(name, size))
    ELSE data

\* Array.__init__: self.lib[base_type_name] raises KeyError when absent.
ArrayRaises(data, base_type_name) == GetItem(data, base_type_name).raised
ArrayNode(data, base_type_name, nelements) ==
    [cls |-> "Array", base_type_name |-> base_type_name,
     nelements |-> nelements,
     size |-> GetItem(data, base_type_name).item.size * nelements]
ArrayInit(data, base_type_name, nelements) ==
    SetItem(data, ArrayStr(base_type_name, nelements),
            ArrayNode(data, base_type_name, nelements))

\* Pointer.__init__: target_type_name is stored as it is given, a str or a
\* tinfo_t object; the name is its rendering followed by " *".
PointerNode(target_type_name) ==
    [cls |-> "Pointer", target_type_name |-> target_type_name,
     name |-> PointerStr(target_type_name), size |-> PointerWidth]
PointerInit(data, target_type_name) ==
    SetItem(data, PointerStr(target_type_name), PointerNode(target_type_name))

\* UDT.Field.__init__: self.lib[self.type_name] raises KeyError when absent.
\* A Field is not registered in the catalog.
FieldRaises(data, type_name) == GetItem(data, type_name).raised
FieldNode(data, name, type_name) ==
    [cls |-> "Field", name |-> name, type_name |-> type_name,
     size |-> GetItem(data, type_name).item.size]

\* UDT.Padding.__init__
PaddingNode(size) == [cls |-> "Padding", size |-> size]

\* Void.__init__ (class attribute size = 0)
VoidNode == [cls |-> "Void", size |-> 0]

\* the loop "for l in layout: self.size += l.size" of Struct.__init__
RECURSIVE SumSizes(_)
SumSizes(layout) ==
    IF layout = <<>> THEN 0
    ELSE SumSizes(SubSeq(layout, 1, Len(layout) - 1)) + layout[Len(layout)].size

\* Struct.__init__
StructNode(name, layout) ==
    [cls |-> "Struct", name |-> name, layout |-> layout,
     size |-> SumSizes(layout)]
StructInit(data, name, layout) ==
    IF name # NoneName THEN SetItem(data, name, StructNode(name, layout))
    ELSE data

\* Mutant of MaxMemberSize: the sizes are added up, as for a struct.
SumMemberSize(members) == SumSizes(members)

\* max(m.size for m in members), ValueError (empty) giving 0
MaxMemberSize(members) ==
    IF members = <<>> THEN 0
    ELSE Max({members[i].size : i \in 1..Len(members)})

\* Union.__init__
UnionNode(name, members, padding) ==
    [cls |-> "Union", name |-> name, members |-> members, padding |-> padding,
     size |-> MaxMemberSize(members)
              + (IF padding # NonePadding THEN padding.size ELSE 0)]
UnionInit(data, name, members, padding) ==
    IF name # NoneName THEN SetItem(data, name, UnionNode(name, members, padding))
    ELSE data

-----------------------------------------------------------------------------
(* The record of a caller's operation (SpecLib): its name, the key and     *)
(* node it put (when it put one), the names it looked up, the exception it *)
(* raised and, for the codec, the node that was encoded.                   *)

Outcome(op, key, node, refs, raised, put, arg) ==
    [op |-> op, key |-> key, node |-> node, refs |-> refs, raised |-> raised,
     put |-> put, arg |-> arg]

NoOp == Outcome("none", "", NonePadding, {}, "none", FALSE, NonePadding)

-----------------------------------------------------------------------------
(* TypeLib.add, one step per action.  A frame is one activation of add:    *)
(* its argument typ, where it stands, and the locals of the struct/union   *)
(* branches (n, layout or members, next_offset).                           *)

NewFrame(t) ==
    [typ |-> t, pc |-> "enter", n |-> 0, layout |-> <<>>, next_offset |-> 0]

Top == stack[Len(stack)]

\* Mutant of AlreadySeen: the visited-set is not consulted.
AlreadySeenVoidOnly(wl, t) == IsVoid(t)

\* "if typ.dstr() in worklist or typ.is_void(): return"
AlreadySeen(wl, t) == Dstr(t) \in wl \/ IsVoid(t)

\* Mutant of WorklistAdd: the signature is not marked visited.
WorklistAddDropped(wl, sig) == wl

\* "worklist.add(typ.dstr())"
WorklistAdd(wl, sig) == wl \cup {sig}

\* Mutant of PaddingBefore: the gap is left in bits.
PaddingBeforeInBits(offset, next_offset) ==
    IF offset # next_offset
    THEN <<PaddingNode(offset - next_offset)>>
    ELSE <<>>

\* "if member.offset != next_offset: layout.append(UDT.Padding(...))"
PaddingBefore(offset, next_offset) ==
    IF offset # next_offset
    THEN <<PaddingNode((offset - next_offset) \div BitsPerByte)>>
    ELSE <<>>

\* "next_offset = member.offset + member.size"
NextOffset(offset, size) == offset + size

Count(sig) ==
    IF sig \in DOMAIN visits THEN [visits EXCEPT ![sig] = @ + 1]
    ELSE visits @@ (sig :> 1)

\* The innermost activation returns.
Return ==
    /\ stack' = SubSeq(stack, 1, Len(stack) - 1)
    /\ status' = IF Len(stack) = 1 THEN "done" ELSE "running"
    /\ calls' = calls

\* The innermost activation, left as frame f, calls self.add(t, worklist).
Call(f, t) ==
    /\ stack' = Append([stack EXCEPT ![Len(stack)] = f], NewFrame(t))
    /\ status' = status
    /\ calls' = calls + 1

\* The innermost activation goes on as frame f.
Goto(f) ==
    /\ stack' = [stack EXCEPT ![Len(stack)] = f]
    /\ status' = status
    /\ calls' = calls

\* An uncaught KeyError unwinds every activation.
Raise ==
    /\ stack' = <<>>
    /\ status' = "KeyError"
    /\ calls' = calls

Running(pc) == status = "running" /\ stack # <<>> /\ Top.pc = pc

\* lines 32-33
AddSkip ==
    /\ Running("enter")
    /\ AlreadySeen(worklist, Top.typ)
    /\ Return
    /\ UNCHANGED <<udts, root, lib, worklist, visits, last>>

\* Mutant of AddPointer: the Pointer node is not built before the pointee
\* is traversed.
AddPointerUnregistered ==
    /\ Running("enter")
    /\ ~AlreadySeen(worklist, Top.typ)
    /\ IsPtr(Top.typ)
    /\ worklist' = WorklistAdd(worklist, Dstr(Top.typ))
    /\ visits' = Count(Dstr(Top.typ))
    /\ lib' = lib
    /\ Call([Top EXCEPT !.pc = "ptr_ret"], Top.typ.to)
    /\ UNCHANGED <<udts, root, last>>

\* lines 34-37, up to the recursive call.  Pointer is handed the pointee's
\* tinfo_t object, typ.get_pointed_object(), not its signature: the node
\* stores the object as target_type_name and is registered under the
\* object's str() followed by " *".
AddPointer ==
    /\ Running("enter")
    /\ ~AlreadySeen(worklist, Top.typ)
    /\ IsPtr(Top.typ)
    /\ worklist' = WorklistAdd(worklist, Dstr(Top.typ))
    /\ visits' = Count(Dstr(Top.typ))
    /\ lib' = PointerInit(lib, TinfoHandle(Top.typ.to))
    /\ Call([Top EXCEPT !.pc = "ptr_ret"], Top.typ.to)
    /\ UNCHANGED <<udts, root, last>>

\* line 37 returned: the pointer branch is over
AddPointerReturn ==
    /\ Running("ptr_ret")
    /\ Return
    /\ UNCHANGED <<udts, root, lib, worklist, visits, last>>

\* lines 34, 38-39, up to the recursive call
AddArray ==
    /\ Running("enter")
    /\ ~AlreadySeen(worklist, Top.typ)
    /\ IsArray(Top.typ)
    /\ worklist' = WorklistAdd(worklist, Dstr(Top.typ))
    /\ visits' = Count(Dstr(Top.typ))
    /\ Call([Top EXCEPT !.pc = "arr_ret"], Top.typ.of)
    /\ UNCHANGED <<udts, root, lib, last>>

\* lines 44-47
AddArrayFinish ==
    /\ Running("arr_ret")
    /\ IF ArrayRaises(lib, Dstr(Top.typ.of))
       THEN Raise /\ lib' = lib
       ELSE Return /\ lib' = ArrayInit(lib, Dstr(Top.typ.of), Top.typ.n)
    /\ UNCHANGED <<udts, root, worklist, visits, last>>

\* lines 34, 48-55 (union) or 48-53, 69-71 (struct)
AddUdt ==
    /\ Running("enter")
    /\ ~AlreadySeen(worklist, Top.typ)
    /\ IsUdt(Top.typ)
    /\ worklist' = WorklistAdd(worklist, Dstr(Top.typ))
    /\ visits' = Count(Dstr(Top.typ))
    /\ Goto([Top EXCEPT !.pc = IF IsUnion(udts, Top.typ) THEN "loop_u" ELSE "loop_s",
                        !.n = 0, !.layout = <<>>, !.next_offset = 0])
    /\ UNCHANGED <<udts, root, lib, last>>

\* lines 56-63, up to the recursive call
AddUnionMember ==
    /\ Running("loop_u")
    /\ Top.n < NMembers(udts, Top.typ)
    /\ Call([Top EXCEPT !.pc = "field_u"], MemberType(udts, Top.typ, Top.n))
    /\ UNCHANGED <<udts, root, lib, worklist, visits, last>>

\* lines 64-66
AddUnionField ==
    /\ Running("field_u")
    /\ LET type_name == Dstr(MemberType(udts, Top.typ, Top.n)) IN
       IF FieldRaises(lib, type_name)
       THEN Raise
       ELSE Goto([Top EXCEPT
                    !.pc = "loop_u",
                    !.n = @ + 1,
                    !.layout = Append(@, FieldNode(lib,
                                   MemberName(udts, Top.typ, Top.n), type_name))])
    /\ UNCHANGED <<udts, root, lib, worklist, visits, last>>

\* line 68
AddUnionFinish ==
    /\ Running("loop_u")
    /\ Top.n >= NMembers(udts, Top.typ)
    /\ lib' = UnionInit(lib, Dstr(Top.typ), Top.layout, NonePadding)
    /\ Return
    /\ UNCHANGED <<udts, root, worklist, visits, last>>

\* lines 72-82, up to the recursive call
AddStructMember ==
    /\ Running("loop_s")
    /\ Top.n < NMembers(udts, Top.typ)
    /\ LET offset == MemberOffset(udts, Top.typ, Top.n)
           size == MemberSize(udts, Top.typ, Top.n) IN
       Call([Top EXCEPT
               !.pc = "field_s",
               !.layout = @ \o PaddingBefore(offset, Top.next_offset),
               !.next_offset = NextOffset(offset, size)],
            MemberType(udts, Top.typ, Top.n))
    /\ UNCHANGED <<udts, root, lib, worklist, visits, last>>

\* lines 83-85
AddStructField ==
    /\ Running("field_s")
    /\ LET type_name == Dstr(MemberType(udts, Top.typ, Top.n)) IN
       IF FieldRaises(lib, type_name)
       THEN Raise
       ELSE Goto([Top EXCEPT
                    !.pc = "loop_s",
                    !.n = @ + 1,
                    !.layout = Append(@, FieldNode(lib,
                                   MemberName(udts, Top.typ, Top.n), type_name))])
    /\ UNCHANGED <<udts, root, lib, worklist, visits, last>>

\* line 86
AddStructFinish ==
    /\ Running("loop_s")
    /\ Top.n >= NMembers(udts, Top.typ)
    /\ lib' = StructInit(lib, Dstr(Top.typ), Top.layout)
    /\ Return
    /\ UNCHANGED <<udts, root, worklist, visits, last>>

\* lines 34, 87-88
AddPrimitive ==
    /\ Running("enter")
    /\ ~AlreadySeen(worklist, Top.typ)
    /\ ~IsPtr(Top.typ) /\ ~IsArray(Top.typ) /\ ~IsUdt(Top.typ)
    /\ worklist' = WorklistAdd(worklist, Dstr(Top.typ))
    /\ visits' = Count(Dstr(Top.typ))
    /\ lib' = TypeInfoInit(lib, Dstr(Top.typ), SizeOfT(udts, Top.typ))
    /\ Return
    /\ UNCHANGED <<udts, root, last>>

-----------------------------------------------------------------------------
(* The type graphs of Spec.  Containment by value (member, array element)  *)
(* is well-founded, as in C: "A" may hold a "B", "B" reaches "A" only      *)
(* through a pointer.                                                      *)

Gaps == {0, 32}

FieldName(i) == "f" \o ToString(i)

\* The declarations of one named type: struct or union, up to max members;
\* union members all sit at offset 0.
Decls(types, max) ==
    { [union |-> u,
       members |-> [i \in 1..k |->
                      [name |-> FieldName(i), type |-> m[i][1], gap |-> m[i][2]]]] :
        <<u, k, m>> \in
          { x \in UNION { {<<u, k, m>> : m \in [1..k -> types \X Gaps], u \in BOOLEAN}
                          : k \in 0..max }
              : x[1] => \A i \in 1..x[2] : x[3][i][2] = 0 } }

Tables ==
    { [nm \in UdtNames |-> IF nm = "A" THEN a ELSE b] :
        a \in Decls(MemberTypesA, MaxMembersA),
        b \in Decls(MemberTypesB, MaxMembersB) }


\* The types add is called on from a dispatch on t.
Children(tbl, t) ==
    CASE IsPtr(t) -> {t.to}
      [] IsArray(t) -> {t.of}
      [] IsUdt(t) -> {tbl[t.name].members[i].type : i \in 1..Len(tbl[t.name].members)}
      [] OTHER -> {}

RECURSIVE Closure(_, _)
Closure(tbl, S) ==
    LET T == S \cup UNION {Children(tbl, t) : t \in S}
    IN IF T = S THEN S ELSE Closure(tbl, T)

\* The types reachable from t, t included.
Reach(tbl, t) == Closure(tbl, {t})

\* A named type the root does not reach is never asked about: it is left
\* an empty struct.
EmptyDecl == [union |-> FALSE, members |-> <<>>]

Init ==
    /\ udts \in Tables
    /\ root \in Roots
    /\ \A nm \in UdtNames :
           UdtT(nm) \notin Reach(udts, root) => udts[nm] = EmptyDecl
    /\ lib = EmptyLib
    /\ worklist = {}
    /\ stack = <<NewFrame(root)>>
    /\ status = "running"
    /\ visits = [sig \in {} |-> 0]
    /\ calls = 1
    /\ last = NoOp

Next ==
    \/ AddSkip
    \/ AddPointer
    \/ AddPointerReturn
    \/ AddArray
    \/ AddArrayFinish
    \/ AddUdt
    \/ AddUnionMember
    \/ AddUnionField
    \/ AddUnionFinish
    \/ AddStructMember
    \/ AddStructField
    \/ AddStructFinish
    \/ AddPrimitive

Spec == Init /\ [][Next]_vars

-----------------------------------------------------------------------------
(* TypeInfoCodec.  The JSON text is modelled by the JSON value it denotes:  *)
(* an object is a record with the keys the _to_json methods write.         *)

JsonNull == [null |-> TRUE]

\* The _to_json methods, applied through _TypeEncoder.default to nested
\* nodes as json.dumps meets them.
RECURSIVE ToJson(_)
ToJson(node) ==
    CASE node.cls = "TypeInfo" -> [T |-> 0, n |-> node.name, s |-> node.size]
      [] node.cls = "Array" ->
           [T |-> 1, b |-> node.base_type_name, n |-> node.nelements]
      [] node.cls = "Pointer" -> [T |-> 2, t |-> node.target_type_name]
      [] node.cls = "Field" -> [T |-> 3, n |-> node.name, t |-> node.type_name]
      [] node.cls = "Padding" -> [T |-> 4, s |-> node.size]
      [] node.cls = "Struct" ->
           [T |-> 5, n |-> node.name,
            l |-> [i \in 1..Len(node.layout) |-> ToJson(node.layout[i])]]
      [] node.cls = "Union" ->
           [T |-> 6, n |-> node.name,
            m |-> [i \in 1..Len(node.members) |-> ToJson(node.members[i])],
            p |-> IF node.padding = NonePadding THEN JsonNull
                  ELSE ToJson(node.padding)]
      [] node.cls = "Void" -> [T |-> 7]

\* JSONEncoder.default on a value of the dict a _to_json returned: a
\* tinfo_t object has no _to_json and is not JSON serializable.  Only a
\* Pointer can hold one.
Serializable(node) ==
    node.cls = "Pointer" => ~IsTinfo(node.target_type_name)

\* TypeInfoCodec.encode
Encode(typeinfo) ==
    IF Serializable(typeinfo)
    THEN [raised |-> "none", json |-> ToJson(typeinfo)]
    ELSE [raised |-> "TypeError", json |-> JsonNull]

\* Positional parameters, after cls, that the _from_json classmethod of the
\* class with discriminant T declares: (lib, d) or (d).
FromJsonParams(T) == IF T \in {4, 7} THEN 1 ELSE 2

\* as_typeinfo(d): the class is looked up by d["T"] and its _from_json is
\* called with the one argument d; a classmethod declaring (lib, d) then
\* raises TypeError, Padding and Void build their node.
AsTypeInfo(d) ==
    IF FromJsonParams(d.T) # 1
    THEN [raised |-> "TypeError", node |-> NonePadding]
    ELSE [raised |-> "none",
          node |-> IF d.T = 4 THEN PaddingNode(d.s) ELSE VoidNode]

\* The objects nested in the JSON object d, in the order loads closes them.
Nested(d) ==
    CASE d.T = 5 -> d.l
      [] d.T = 6 -> IF d.p = JsonNull THEN d.m ELSE Append(d.m, d.p)
      [] OTHER -> <<>>

\* TypeInfoCodec.decode: json.loads calls the object hook on every object,
\* innermost first; the first exception ends the decoding.
Decode(encoded) ==
    LET inner == Nested(encoded)
        failed == {i \in 1..Len(inner) : AsTypeInfo(inner[i]).raised # "none"}
    IN IF failed # {}
       THEN [raised |-> "TypeError", node |-> NonePadding]
       ELSE AsTypeInfo(encoded)

\* Array._from_json(lib, d)
ArrayFromJsonRaises(data, d) == ArrayRaises(data, d.b)
ArrayFromJson(data, d) == ArrayInit(data, d.b, d.n)

\* UDT.Field._from_json(lib, d)
FieldFromJsonRaises(data, d) == FieldRaises(data, d.t)
FieldFromJson(data, d) == FieldNode(data, d.n, d.t)

-----------------------------------------------------------------------------
(* SpecLib: a caller of the catalog, the constructors and the codec.       *)



PrimArgs == {<<"int", 4>>, <<"int", 8>>, <<"long", 8>>, <<"short", 2>>,
             <<NoneName, 4>>}
PointerArgs == {"int"}
PointerTinfoArgs == {VoidT}
ArrayArgs == {<<"int", 10>>}

\* What a caller lists for a layout entry: a field to build, or a padding.
FieldSpec(type_name) == [field |-> TRUE, type_name |-> type_name]
PaddingSpec == [field |-> FALSE, type_name |-> ""]

StructSpecs ==
    UNION { [1..k -> {FieldSpec("int"), PaddingSpec}] : k \in 0..MaxLayout }

UnionMemberTypes == <<"int", "long", "short">>
UnionSpecs ==
    { [i \in 1..Cardinality(S) |->
         FieldSpec(UnionMemberTypes[
             CHOOSE j \in S : Cardinality({x \in S : x < j}) = i - 1])] :
        S \in SUBSET (1..Len(UnionMemberTypes)) }

SpecRefs(specs) ==
    {specs[i].type_name : i \in {j \in 1..Len(specs) : specs[j].field}}

\* The caller builds the entries in order: UDT.Field(lib, ...) for a field,
\* UDT.Padding(...) for a padding.
EntriesRaise(data, specs) ==
    \E i \in 1..Len(specs) : specs[i].field /\ FieldRaises(data, specs[i].type_name)
Entries(data, specs) ==
    [i \in 1..Len(specs) |->
        IF specs[i].field
        THEN FieldNode(data, FieldName(i), specs[i].type_name)
        ELSE PaddingNode(PaddingArg)]

Open == Cardinality(DOMAIN lib) < MaxEntries

\* lib[key] = item
LibSetItem ==
    /\ Open
    /\ \E key \in {"int"}, item \in {TypeInfoNode("int", 2)} :
         /\ lib' = SetItem(lib, key, item)
         /\ last' = Outcome("SetItem", key, item, {}, "none", TRUE, NonePadding)
    /\ UNCHANGED <<udts, root, worklist, stack, status, visits, calls>>

\* TypeInfo(lib, name=..., size=...)
LibTypeInfo ==
    /\ Open
    /\ \E a \in PrimArgs :
         /\ lib' = TypeInfoInit(lib, a[1], a[2])
         /\ last' = Outcome("TypeInfo", a[1], TypeInfoNode(a[1], a[2]), {},
                            "none", a[1] # NoneName, NonePadding)
    /\ UNCHANGED <<udts, root, worklist, stack, status, visits, calls>>

\* Pointer(lib, target)
LibPointer ==
    /\ Open
    /\ \E target \in PointerArgs :
         /\ lib' = PointerInit(lib, target)
         /\ last' = Outcome("Pointer", PointerStr(target), PointerNode(target),
                            {}, "none", TRUE, NonePadding)
    /\ UNCHANGED <<udts, root, worklist, stack, status, visits, calls>>

\* Pointer(lib, typ) with typ a tinfo_t object, as TypeLib.add builds it
LibPointerTinfo ==
    /\ Open
    /\ \E t \in PointerTinfoArgs :
         /\ lib' = PointerInit(lib, TinfoHandle(t))
         /\ last' = Outcome("Pointer", PointerStr(TinfoHandle(t)),
                            PointerNode(TinfoHandle(t)),
                            {}, "none", TRUE, NonePadding)
    /\ UNCHANGED <<udts, root, worklist, stack, status, visits, calls>>

\* Array(lib, base_type_name=..., nelements=...)
LibArray ==
    /\ Open
    /\ \E a \in ArrayArgs :
         IF ArrayRaises(lib, a[1])
         THEN /\ lib' = lib
              /\ last' = Outcome("Array", ArrayStr(a[1], a[2]), NonePadding,
                                 {a[1]}, "KeyError", FALSE, NonePadding)
         ELSE /\ lib' = ArrayInit(lib, a[1], a[2])
              /\ last' = Outcome("Array", ArrayStr(a[1], a[2]),
                                 ArrayNode(lib, a[1], a[2]), {a[1]}, "none",
                                 TRUE, NonePadding)
    /\ UNCHANGED <<udts, root, worklist, stack, status, visits, calls>>

\* Array._from_json(lib, d)
LibArrayFromJson ==
    /\ Open
    /\ \E d \in {[T |-> 1, b |-> "long", n |-> ArrayLen]} :
         IF ArrayFromJsonRaises(lib, d)
         THEN /\ lib' = lib
              /\ last' = Outcome("Array._from_json", ArrayStr(d.b, d.n),
                                 NonePadding, {d.b}, "KeyError", FALSE, NonePadding)
         ELSE /\ lib' = ArrayFromJson(lib, d)
              /\ last' = Outcome("Array._from_json", ArrayStr(d.b, d.n),
                                 ArrayNode(lib, d.b, d.n), {d.b}, "none", TRUE,
                                 NonePadding)
    /\ UNCHANGED <<udts, root, worklist, stack, status, visits, calls>>

\* UDT.Field._from_json(lib, d)
LibFieldFromJson ==
    /\ Open
    /\ \E d \in {[T |-> 3, n |-> "f1", t |-> "short"]} :
         /\ lib' = lib
         /\ IF FieldFromJsonRaises(lib, d)
            THEN last' = Outcome("Field._from_json", "", NonePadding, {d.t},
                                 "KeyError", FALSE, NonePadding)
            ELSE last' = Outcome("Field._from_json", "", FieldFromJson(lib, d),
                                 {d.t}, "none", FALSE, NonePadding)
    /\ UNCHANGED <<udts, root, worklist, stack, status, visits, calls>>

\* the entries are built, then Struct(lib, name="S", layout=entries)
LibStruct ==
    /\ Open
    /\ \E specs \in StructSpecs :
         IF EntriesRaise(lib, specs)
         THEN /\ lib' = lib
              /\ last' = Outcome("Struct", "S", NonePadding, SpecRefs(specs),
                                 "KeyError", FALSE, NonePadding)
         ELSE /\ lib' = StructInit(lib, "S", Entries(lib, specs))
              /\ last' = Outcome("Struct", "S", StructNode("S", Entries(lib, specs)),
                                 SpecRefs(specs), "none", TRUE, NonePadding)
    /\ UNCHANGED <<udts, root, worklist, stack, status, visits, calls>>

\* the members are built, then Union(lib, name="U", members=..., padding=...)
LibUnion ==
    /\ Open
    /\ \E specs \in UnionSpecs, padding \in {NonePadding, PaddingNode(PaddingArg)} :
         IF EntriesRaise(lib, specs)
         THEN /\ lib' = lib
              /\ last' = Outcome("Union", "U", NonePadding, SpecRefs(specs),
                                 "KeyError", FALSE, NonePadding)
         ELSE /\ lib' = UnionInit(lib, "U", Entries(lib, specs), padding)
              /\ last' = Outcome("Union", "U",
                                 UnionNode("U", Entries(lib, specs), padding),
                                 SpecRefs(specs), "none", TRUE, NonePadding)
    /\ UNCHANGED <<udts, root, worklist, stack, status, visits, calls>>

\* The nodes at hand: the catalog's, the entries of its structs and unions,
\* a Padding and a Void.
NodesAtHand ==
    LET top == {lib[key] : key \in DOMAIN lib} IN
    top \cup {VoidNode, PaddingNode(PaddingArg)}
        \cup UNION {{n.layout[i] : i \in 1..Len(n.layout)} :
                      n \in {x \in top : x.cls = "Struct"}}
        \cup UNION {{n.members[i] : i \in 1..Len(n.members)} :
                      n \in {x \in top : x.cls = "Union"}}

\* TypeInfoCodec.decode(TypeInfoCodec.encode(node))
LibRoundTrip ==
    /\ Open
    /\ \E node \in NodesAtHand :
         LET enc == Encode(node)
             got == IF enc.raised = "none" THEN Decode(enc.json)
                    ELSE [raised |-> enc.raised, node |-> NonePadding]
         IN last' = Outcome("decode", "", got.node, {}, got.raised, FALSE, node)
    /\ UNCHANGED <<udts, root, lib, worklist, stack, status, visits, calls>>

InitLib ==
    /\ udts = [nm \in UdtNames |-> EmptyDecl]
    /\ root = VoidT
    /\ lib = EmptyLib
    /\ worklist = {}
    /\ stack = <<>>
    /\ status = "done"
    /\ visits = [sig \in {} |-> 0]
    /\ calls = 0
    /\ last = NoOp

NextLib ==
    \/ LibSetItem
    \/ LibTypeInfo
    \/ LibPointer
    \/ LibPointerTinfo
    \/ LibArray
    \/ LibArrayFromJson
    \/ LibFieldFromJson
    \/ LibStruct
    \/ LibUnion
    \/ LibRoundTrip

SpecLib == InitLib /\ [][NextLib]_vars

-----------------------------------------------------------------------------
(* Vocabulary of the properties of Spec *)

\* The signatures of the non-void types reachable from t.
ReachSigs(tbl, t) == {Dstr(x) : x \in {y \in Reach(tbl, t) : ~IsVoid(y)}}

OutDegree(tbl, t) ==
    CASE IsPtr(t) -> 1
      [] IsArray(t) -> 1
      [] IsUdt(t) -> Len(tbl[t.name].members)
      [] OTHER -> 0

RECURSIVE SumOutDegree(_, _)
SumOutDegree(tbl, S) ==
    IF S = {} THEN 0
    ELSE LET t == CHOOSE x \in S : TRUE
         IN OutDegree(tbl, t) + SumOutDegree(tbl, S \ {t})

Done == status = "done"

\* C3: normalization terminates and the shape dispatch runs at most once per
\* distinct signature reachable from the root: no signature is dispatched
\* twice, only reachable signatures are dispatched, the number of activations
\* of add never exceeds one per edge of the reachable graph plus the initial
\* one, the recursion is never deeper than the number of reachable signatures
\* plus one, and a running normalization always has a next step.
C3_TerminatesOncePerSignature ==
    LET reached == {t \in Reach(udts, root) : ~IsVoid(t)}
        sigs == {Dstr(t) : t \in reached}
    IN /\ \A sig \in DOMAIN visits : visits[sig] <= 1
       /\ DOMAIN visits \subseteq sigs
       /\ DOMAIN visits = worklist
       /\ calls <= 1 + SumOutDegree(udts, reached)
       /\ Len(stack) <= Cardinality(sigs) + 1
       /\ status = "running" => ENABLED Next

\* C3 witness: a struct holding a pointer to itself has been normalized to
\* the end, the struct having been met a second time.
C3_Witness ==
    /\ Done
    /\ root = UdtT("A")
    /\ \E i \in 1..Len(udts["A"].members) :
           udts["A"].members[i].type = PtrT(UdtT("A"))
    /\ visits["A"] = 1
    /\ calls > Cardinality(DOMAIN visits)

\* C4 (as claimed): whenever add is about to construct an Array or a Field,
\* the referenced type name is already registered in the catalog, so the
\* size lookup does not fail and add never ends in a KeyError.
C4_ReferencedNameRegistered ==
    /\ Running("arr_ret") => Contains(lib, Dstr(Top.typ.of))
    /\ Running("field_s") \/ Running("field_u") =>
           Contains(lib, Dstr(MemberType(udts, Top.typ, Top.n)))
    /\ status # "KeyError"

\* The struct "A" whose only member is a pointer to "A", normalized from "A".
SelfPointer ==
    /\ root = UdtT("A")
    /\ ~udts["A"].union
    /\ Len(udts["A"].members) = 1
    /\ udts["A"].members[1].type = PtrT(UdtT("A"))

KeysOfClass(cls) == {key \in DOMAIN lib : lib[key].cls = cls}

\* C5: normalizing a struct whose only member is a pointer to itself takes
\* three activations of add and always has a next step until it is done, never
\* fails, re-enters the struct only after the Pointer is registered and the
\* struct is marked visited, and ends with exactly one Struct entry and one
\* Pointer entry in the catalog (the Pointer holding the struct's tinfo_t).
C5_SelfPointerTerminates ==
    SelfPointer =>
        /\ status # "KeyError"
        /\ calls <= 3
        /\ status = "running" => ENABLED Next
        /\ \A i \in 2..Len(stack) :
               stack[i].typ = UdtT("A") /\ stack[i].pc = "enter" =>
                   /\ "A *" \in DOMAIN lib
                   /\ lib["A *"].cls = "Pointer"
                   /\ "A" \in worklist
                   /\ "A" \notin DOMAIN lib
        /\ Done =>
               /\ DOMAIN lib = {"A", "A *"}
               /\ Cardinality(KeysOfClass("Struct")) = 1
               /\ Cardinality(KeysOfClass("Pointer")) = 1
               /\ lib["A"].cls = "Struct"
               /\ lib["A *"].target_type_name = TinfoHandle(UdtT("A"))

\* C5 witness: the self-pointing struct has been normalized to the end.
C5_Witness == SelfPointer /\ Done /\ calls = 3

\* The struct types reachable from the root.
ReachStructs == {t \in Reach(udts, root) : IsStruct(udts, t)}

\* The signatures reachable through two distinct fields of the struct t.
SharedVia(t) ==
    LET ms == udts[t.name].members IN
    UNION { ReachSigs(udts, ms[i].type) \cap ReachSigs(udts, ms[j].type) :
              <<i, j>> \in {p \in (1..Len(ms)) \X (1..Len(ms)) : p[1] < p[2]} }

\* The signatures reachable from the root through two distinct struct fields.
SharedSigs == UNION {SharedVia(t) : t \in ReachStructs}

\* C6: a type reachable from the root through two distinct struct fields is
\* never dispatched twice, and when the normalization is done it has been
\* dispatched once, is in the catalog, the catalog's keys are exactly the
\* reachable signatures, and at least one activation of add stopped at the
\* visited check.
C6_DiamondDedup ==
    status # "running" =>
        /\ \A sig \in SharedSigs \cap DOMAIN visits : visits[sig] = 1
        /\ DOMAIN lib \subseteq ReachSigs(udts, root)
        /\ Done =>
               /\ SharedSigs \subseteq DOMAIN visits
               /\ SharedSigs \subseteq DOMAIN lib
               /\ DOMAIN lib = ReachSigs(udts, root)
               /\ SharedSigs # {} => calls > Cardinality(DOMAIN visits)

\* C6 witness: a struct with two fields of different types that share a
\* reachable type has been normalized.
C6_Witness ==
    /\ Done
    /\ IsStruct(udts, root)
    /\ Len(udts[root.name].members) = 2
    /\ udts[root.name].members[1].type # udts[root.name].members[2].type
    /\ SharedVia(root) # {}

\* Byte offset of member i (1-based) of the struct nm, and the byte where
\* the member before it ends (0 for the first).
ByteOffset(nm, i) == MemberOffset(udts, UdtT(nm), i - 1) \div BitsPerByte
ExpectedNext(nm, i) ==
    IF i = 1 THEN 0
    ELSE ByteOffset(nm, i - 1) + SizeOfT(udts, udts[nm].members[i - 1].type)

\* The layout the padding rule prescribes for the first i members of nm.
RECURSIVE ExpectedLayout(_, _)
ExpectedLayout(nm, i) ==
    IF i = 0 THEN <<>>
    ELSE ExpectedLayout(nm, i - 1)
         \o (IF ByteOffset(nm, i) # ExpectedNext(nm, i)
             THEN <<[cls |-> "Padding",
                     size |-> ByteOffset(nm, i) - ExpectedNext(nm, i)]>>
             ELSE <<>>)
         \o <<[cls |-> "Field", name |-> udts[nm].members[i].name,
               type_name |-> Dstr(udts[nm].members[i].type),
               size |-> lib[Dstr(udts[nm].members[i].type)].size]>>

RECURSIVE TotalSize(_, _)
TotalSize(layout, i) ==
    IF i = 0 THEN 0 ELSE layout[i].size + TotalSize(layout, i - 1)

TwoIntsApart ==
    /\ ~udts["A"].union
    /\ udts["A"].members = <<[name |-> "f1", type |-> IntT, gap |-> 0],
                             [name |-> "f2", type |-> IntT, gap |-> 32]>>

\* C7: every Struct the normalizer registers has a Padding entry right
\* before a member exactly when the member's byte offset differs from the
\* byte where the previous member ends, sized to that gap, and its size is
\* the sum of the sizes of its layout entries; two 4-byte fields at byte
\* offsets 0 and 8 give [Field, Padding(4), Field] and size 12.
C7_StructPadding ==
    /\ \A nm \in UdtNames :
           nm \in DOMAIN lib /\ lib[nm].cls = "Struct" =>
               /\ lib[nm].layout = ExpectedLayout(nm, Len(udts[nm].members))
               /\ lib[nm].size = TotalSize(lib[nm].layout, Len(lib[nm].layout))
    /\ TwoIntsApart /\ "A" \in DOMAIN lib =>
           /\ lib["A"].layout = <<[cls |-> "Field", name |-> "f1",
                                   type_name |-> "int", size |-> 4],
                                  [cls |-> "Padding", size |-> 4],
                                  [cls |-> "Field", name |-> "f2",
                                   type_name |-> "int", size |-> 4]>>
           /\ lib["A"].size = 12

\* C7 witness: the struct with two ints at byte offsets 0 and 8 is registered.
C7_Witness == TwoIntsApart /\ Done /\ "A" \in DOMAIN lib

\* What a catalog node refers to other types by.
Refs(node) ==
    CASE node.cls = "Pointer" -> {node.target_type_name}
      [] node.cls = "Array" -> {node.base_type_name}
      [] node.cls = "Struct" ->
           {node.layout[i].type_name :
              i \in {j \in 1..Len(node.layout) : node.layout[j].cls = "Field"}}
      [] node.cls = "Union" ->
           {node.members[i].type_name :
              i \in {j \in 1..Len(node.members) : node.members[j].cls = "Field"}}
      [] OTHER -> {}

\* Whether ref is a type name that is a key of the catalog; the keys are
\* strings, a tinfo_t object is none of them.
IsKey(data, ref) == IF IsTinfo(ref) THEN FALSE ELSE Contains(data, ref)

\* C10 (as claimed): once add has returned normally, every type name a
\* Pointer, an Array or a Field in the catalog refers to is a key of the
\* catalog, except references to void, and "void" is never a key.
C10_ReferenceClosure ==
    Done =>
        /\ \A key \in DOMAIN lib : \A ref \in Refs(lib[key]) :
               Str(ref) # "void" => IsKey(lib, ref)
        /\ "void" \notin DOMAIN lib

-----------------------------------------------------------------------------
(* Properties of SpecLib *)

\* C1: insertion is first-write-wins: no step removes or replaces an entry
\* of the catalog, a put under an existing name changes nothing, a put under
\* a new name adds exactly that entry, and nothing but a put adds one.
C1_FirstWriteWins ==
    [][ /\ \A key \in DOMAIN lib : key \in DOMAIN lib' /\ lib'[key] = lib[key]
        /\ last'.put /\ last'.key \in DOMAIN lib => lib' = lib
        /\ last'.put /\ last'.key \notin DOMAIN lib =>
               /\ DOMAIN lib' = DOMAIN lib \cup {last'.key}
               /\ lib'[last'.key] = last'.node
        /\ ~last'.put => lib' = lib ]_vars

\* C1 witness: a put was made under a name that already held a structurally
\* different node, and the catalog still holds the earlier node.
C1_Witness ==
    /\ last.op = "SetItem"
    /\ last.put
    /\ last.key \in DOMAIN lib
    /\ lib[last.key] # last.node

\* C2 (as claimed): decoding the encoding of a node succeeds and yields a
\* node structurally equal to the original.
C2_RoundTrip ==
    last.op = "decode" => last.raised = "none" /\ last.node = last.arg

\* C8: constructing or reconstructing an Array or a Field whose referenced
\* type name is not in the catalog raises KeyError and leaves the catalog as
\* it was, and so does building a Struct or Union that lists such a Field:
\* no Struct or Union comes out of it.
C8_MissingReferenceFails ==
    [][ last'.op \in {"Array", "Array._from_json", "Field._from_json",
                      "Struct", "Union"}
        /\ (\E ref \in last'.refs : ref \notin DOMAIN lib)
        => /\ last'.raised = "KeyError"
           /\ last'.node = NonePadding
           /\ lib' = lib ]_vars

\* C8 witness: an Array was asked for over a name the catalog does not have,
\* in a catalog that is not empty.
C8_Witness ==
    /\ last.op = "Array"
    /\ last.raised = "KeyError"
    /\ last.refs = {"int"}
    /\ "int" \notin DOMAIN lib
    /\ DOMAIN lib # {}

\* C9: the size of a Union just built is 0 without members, otherwise the
\* size of a largest member, plus the size of the trailing Padding when one
\* is given; members of sizes 4, 8 and 2 without padding give 8.
C9_UnionSize ==
    last.op = "Union" /\ last.raised = "none" =>
        LET u == last.node
            sizes == {u.members[i].size : i \in 1..Len(u.members)}
            pad == IF u.padding = NonePadding THEN 0 ELSE u.padding.size
        IN /\ sizes = {} => u.size = pad
           /\ sizes # {} =>
                  /\ u.size - pad \in sizes
                  /\ \A x \in sizes : x <= u.size - pad
           /\ sizes = {4, 8, 2} /\ Len(u.members) = 3 /\ pad = 0 => u.size = 8

\* C9 witness: a Union of three members of sizes 4, 8 and 2, without
\* padding, has been built.
C9_Witness ==
    /\ last.op = "Union"
    /\ last.raised = "none"
    /\ Len(last.node.members) = 3
    /\ {last.node.members[i].size : i \in 1..3} = {4, 8, 2}
    /\ last.node.padding = NonePadding

====
